---- MODULE Spec2Model ----
(***************************************************************************)
(* Model of fizzy's WASI runner, tools/wasi/wasi.cpp: run() drives a wasm  *)
(* binary through init / parse / resolve / instantiate / the structural    *)
(* checks / execute, and the seven host functions of wasi_functions are    *)
(* called back by the guest: by "_start" while execute() is running, and   *)
(* by the function of a start section while instantiate() is running.      *)
(*                                                                         *)
(* C++ argument slots args[0..n-1] are the sequence elements args[1..n].   *)
(***************************************************************************)
EXTENDS Integers, Naturals, Sequences, FiniteSets, TLC

VARIABLES
    wasm,        \* the binary given to run(): its parse result and module shape
    uvwasi_err,  \* the status wasi_impl->init() will return (environment input)
    pc,          \* position inside run(), or how the process ended
    wasi_impl,   \* the global handle: "null", "created", "initialised"
    log,         \* the collaborator calls run() has made, in order
    err,         \* the diagnostics written to the error stream
    result,      \* how run() ended: "none", "true", "false", "error", "exit"
                 \* ("error": an exception left run())
    exit_code,   \* the code the process terminated with (result = "exit")
    memory,      \* the instance's linear memory (bytes)
    trapped,     \* the guest trapped (in execute(): result.trapped)
    hostcalls,   \* number of host-call handlers invoked
    last_call    \* the most recent host call: name, args, outcome

vars == <<wasm, uvwasi_err, pc, wasi_impl, log, err, result, exit_code,
          memory, trapped, hostcalls, last_call>>

\* ------------------------------------------------------------------ bounds

MemSize == 12
MaxCalls == 2
MaxArity == 1

\* ------------------------------------------------------- value types, types

ValTypes == {"i32", "i64"}

RECURSIVE SeqsUpTo(_, _)
SeqsUpTo(S, n) ==
    IF n = 0 THEN {<<>>}
    ELSE LET shorter == SeqsUpTo(S, n - 1)
         IN shorter \cup {Append(s, x) : s \in {t \in shorter : Len(t) = n - 1}, x \in S}

\* FuncType{}: no inputs, no outputs.
EmptyFuncType == [inputs |-> <<>>, outputs |-> <<>>]

FuncTypes == [inputs : SeqsUpTo(ValTypes, MaxArity), outputs : SeqsUpTo(ValTypes, MaxArity)]

\* ------------------------------------------------------------ diagnostics

DiagInit == "Failed to initialise UVWASI: \n"
DiagNoStart == "File is not WASI compatible (_start not found)\n"
DiagBadSignature == "File is not WASI compatible (_start has invalid signature)\n"
DiagNoMemory == "File is not WASI compatible (no memory exported)\n"
DiagTrap == "Execution aborted with WebAssembly trap\n"

\* ------------------------------------------------------- execution results

\* A Value slot holding an i32; as<uint32_t>() selects that member.
I32Value(n) == [i32 |-> n]
as_uint32(v) == v.i32

\* ExecutionResult: Trap, Void, or one Value.
Trap == [trapped |-> TRUE, has_value |-> FALSE, value |-> I32Value(0)]
Void == [trapped |-> FALSE, has_value |-> FALSE, value |-> I32Value(0)]
ValueResult(n) == [trapped |-> FALSE, has_value |-> TRUE, value |-> I32Value(n)]

\* --------------------------------------------------- the host-call table

ns == "wasi_snapshot_preview1"

\* run()'s wasi_functions: {module, name, inputs, output, handler}.
wasi_functions == <<
    [module |-> ns, name |-> "proc_exit", inputs |-> <<"i32">>, output |-> <<>>,
     handler |-> "proc_exit"],
    [module |-> ns, name |-> "fd_read", inputs |-> <<"i32", "i32", "i32", "i32">>,
     output |-> <<"i32">>, handler |-> "fd_read"],
    [module |-> ns, name |-> "fd_write", inputs |-> <<"i32", "i32", "i32", "i32">>,
     output |-> <<"i32">>, handler |-> "fd_write"],
    [module |-> ns, name |-> "fd_prestat_get", inputs |-> <<"i32", "i32">>,
     output |-> <<"i32">>, handler |-> "fd_prestat_get"],
    [module |-> ns, name |-> "fd_prestat_dir_name", inputs |-> <<"i32", "i32", "i32">>,
     output |-> <<"i32">>, handler |-> "return_enosys"],
    [module |-> ns, name |-> "environ_sizes_get", inputs |-> <<"i32", "i32">>,
     output |-> <<"i32">>, handler |-> "environ_sizes_get"],
    [module |-> ns, name |-> "environ_get", inputs |-> <<"i32", "i32">>,
     output |-> <<"i32">>, handler |-> "return_enosys"] >>

TableEntries == {wasi_functions[i] : i \in DOMAIN wasi_functions}

\* The import declaration a guest writes for a table entry.
ImportOf(f) == [module |-> f.module, name |-> f.name, inputs |-> f.inputs, output |-> f.output]

\* The table entry an import binds to (exact module, name and type).
BoundEntry(imp) == CHOOSE f \in TableEntries : ImportOf(f) = imp

\* resolve_imported_functions(): every import of the module must match an
\* entry by module and name, with the same type.
resolve_imported_functions(imports) ==
    \A imp \in imports : \E f \in TableEntries : ImportOf(f) = imp

\* ------------------------------------------------------------ the inputs

AllWasiImports == {ImportOf(f) : f \in TableEntries}
UnknownImport ==
    {[module |-> ns, name |-> "args_get", inputs |-> <<"i32", "i32">>, output |-> <<"i32">>]}
MismatchedImport ==
    {[module |-> ns, name |-> "fd_write", inputs |-> <<"i32">>, output |-> <<"i32">>]}
WrongNamespaceImport ==
    {[module |-> "env", name |-> "proc_exit", inputs |-> <<"i32">>, output |-> <<>>]}

ImportSets == {AllWasiImports, UnknownImport, MismatchedImport, WrongNamespaceImport}

\* Initial contents of linear memory (the module's data segments), given as
\* the non-zero bytes; little-endian u32 fields.
Image(bytes) == [i \in 0..(MemSize - 1) |-> IF i \in DOMAIN bytes THEN bytes[i] ELSE 0]

\* iovec {buf = 8, len = 2} at 0, the bytes "hi" at 8.
ImageHi == Image((0 :> 8) @@ (4 :> 2) @@ (8 :> 104) @@ (9 :> 105))
\* iovec {buf = 8, len = 255} at 0: the buffer ends outside memory.
ImageLongBuffer == Image((0 :> 8) @@ (4 :> 255))
\* iovec {buf = 0x7fffff00, len = 2} at 0: the buffer starts outside memory.
ImageFarBuffer == Image((1 :> 255) @@ (2 :> 255) @@ (3 :> 127) @@ (4 :> 2))
ImageZero == Image(<<>>)
\* instance.memory of a module that defines no memory: nothing to address.
NullMemory == <<>>

Images == {ImageZero, ImageHi, ImageLongBuffer, ImageFarBuffer}

\* The export named "_start": absent, or a function of some type.
NoStart == [exported |-> FALSE, type |-> EmptyFuncType]
StartExports == {NoStart} \cup {[exported |-> TRUE, type |-> t] : t \in FuncTypes}

\* A module's memory: none at all, defined but not exported as "memory", or
\* exported as "memory".
MemoryKinds == {"none", "internal", "exported"}

\* start_section: the module has a start section, whose function
\* instantiation runs.
MalformedBinary ==
    [well_formed |-> FALSE, imports |-> {}, within_limits |-> TRUE, start |-> NoStart,
     memory |-> "none", data |-> ImageZero, start_section |-> FALSE]

WellFormedBinaries ==
    {[well_formed |-> TRUE, imports |-> i, within_limits |-> l, start |-> s,
      memory |-> m, data |-> d, start_section |-> FALSE] :
        i \in ImportSets, l \in BOOLEAN, s \in StartExports,
        m \in MemoryKinds, d \in Images}

ValidStart == [exported |-> TRUE, type |-> EmptyFuncType]
BadStart == [exported |-> TRUE, type |-> [inputs |-> <<>>, outputs |-> <<"i32">>]]

StartSectionBinary(s, m) ==
    [well_formed |-> TRUE, imports |-> AllWasiImports, within_limits |-> TRUE, start |-> s,
     memory |-> m, data |-> IF m = "none" THEN ImageZero ELSE ImageHi,
     start_section |-> TRUE]

\* Modules with a start section, importing the whole table: without
\* "_start", with and without memory; with a "_start" of another type than
\* ()->(); with a "_start" of the type ()->(), the memory exported or not.
StartSectionBinaries ==
    {StartSectionBinary(NoStart, "exported"), StartSectionBinary(NoStart, "none"),
     StartSectionBinary(BadStart, "exported"), StartSectionBinary(ValidStart, "internal"),
     StartSectionBinary(ValidStart, "exported")}

Binaries ==
    {MalformedBinary}
        \cup {b \in WellFormedBinaries : b.memory = "none" => b.data = ImageZero}
        \cup StartSectionBinaries

\* wasi_impl->init() status: success or a failure code.
InitStatuses == {0, 28}

NoCall == [name |-> "none", args |-> <<>>, wasi_ret |-> 0, result |-> Void,
           accesses |-> {}, terminated |-> FALSE, aborted |-> FALSE]

Init ==
    /\ wasm \in Binaries
    /\ uvwasi_err \in InitStatuses
    /\ pc = "init"
    /\ wasi_impl = "null"
    /\ log = <<>>
    /\ err = <<>>
    /\ result = "none"
    /\ exit_code = 0
    /\ memory = ImageZero
    /\ trapped = FALSE
    /\ hostcalls = 0
    /\ last_call = NoCall

\* ------------------------------------------------------------------ run()

\* run() returns `value` after writing `diag` to err.
Return(value, diag) ==
    /\ pc' = "done"
    /\ result' = value
    /\ err' = IF diag = "" THEN err ELSE Append(err, diag)

\* Mutant: run() catches the collaborator's exception and reports it itself.
Propagate_caught ==
    /\ pc' = "done"
    /\ result' = "false"
    /\ err' = Append(err, "Failed to load module\n")

\* An exception of a collaborator leaves run(): nothing in run() catches it.
Propagate ==
    /\ pc' = "done"
    /\ result' = "error"
    /\ err' = err

\* Mutant: the status of init() is not looked at.
InitFailed_unchecked(status) == FALSE

\* if (uvwasi_err != 0)
InitFailed(status) == status # 0

\* wasi_impl = create_uvwasi().release(); init(); the status check.
run_init ==
    /\ pc = "init"
    /\ log' = log \o <<"create_uvwasi", "init">>
    /\ IF InitFailed(uvwasi_err)
         THEN /\ wasi_impl' = "created"
              /\ Return("false", DiagInit)
         ELSE /\ wasi_impl' = "initialised"
              /\ pc' = "parse"
              /\ UNCHANGED <<err, result>>
    /\ UNCHANGED <<wasm, uvwasi_err, exit_code, memory, trapped, hostcalls, last_call>>

\* parse(): a module, or a parser error thrown.
parse(binary) == IF binary.well_formed THEN "module" ELSE "parser_error"

run_parse ==
    /\ pc = "parse"
    /\ log' = Append(log, "parse")
    /\ IF parse(wasm) = "parser_error"
         THEN Propagate
         ELSE /\ pc' = "resolve"
              /\ UNCHANGED <<err, result>>
    /\ UNCHANGED <<wasm, uvwasi_err, wasi_impl, exit_code, memory, trapped, hostcalls,
                   last_call>>

run_resolve ==
    /\ pc = "resolve"
    /\ log' = Append(log, "resolve_imported_functions")
    /\ IF ~resolve_imported_functions(wasm.imports)
         THEN Propagate
         ELSE /\ pc' = "instantiate"
              /\ UNCHANGED <<err, result>>
    /\ UNCHANGED <<wasm, uvwasi_err, wasi_impl, exit_code, memory, trapped, hostcalls,
                   last_call>>

\* instantiate() with MaxMemoryPagesLimit: an instantiate error thrown, or an
\* instance whose memory holds the data segments; when the module has a start
\* section, instantiate() executes its function on that instance before it
\* returns ("start_function").
instantiate(binary) ==
    IF ~binary.within_limits THEN "instantiate_error"
    ELSE IF binary.start_section THEN "start_function"
    ELSE "instance"

\* instance.memory: null when the module has no memory.
InstanceMemory(binary) == IF binary.memory = "none" THEN NullMemory ELSE binary.data

\* The call of instantiate(): it throws, or returns the instance, or first
\* runs the start function, guest code that may call the bound imports; the
\* guards on "_start" and on the memory come after it has returned.
run_instantiate ==
    /\ pc = "instantiate"
    /\ log' = Append(log, "instantiate")
    /\ IF instantiate(wasm) = "instantiate_error"
         THEN /\ Propagate
              /\ memory' = memory
         ELSE /\ pc' = IF instantiate(wasm) = "start_function" THEN "start_function"
                       ELSE "checks"
              /\ memory' = InstanceMemory(wasm)
              /\ UNCHANGED <<err, result>>
    /\ UNCHANGED <<wasm, uvwasi_err, wasi_impl, exit_code, trapped, hostcalls, last_call>>

\* Mutant: only the parameters of _start are compared, not its results.
StructuralChecks_params_only(binary) ==
    IF ~binary.start.exported THEN DiagNoStart
    ELSE IF binary.start.type.inputs # <<>> THEN DiagBadSignature
    ELSE IF binary.memory # "exported" THEN DiagNoMemory
    ELSE ""

\* Mutant: any memory of the instance is accepted, exported or not.
StructuralChecks_any_memory(binary) ==
    IF ~binary.start.exported THEN DiagNoStart
    ELSE IF binary.start.type # EmptyFuncType THEN DiagBadSignature
    ELSE IF binary.memory = "none" THEN DiagNoMemory
    ELSE ""

\* The three guards between instantiate() and execute(), in source order:
\* the diagnostic of the first one that fails, or "" when all pass.
StructuralChecks(binary) ==
    IF ~binary.start.exported THEN DiagNoStart
    ELSE IF binary.start.type # EmptyFuncType THEN DiagBadSignature
    ELSE IF binary.memory # "exported" THEN DiagNoMemory
    ELSE ""

\* Guards, then the call of execute(*instance, *start_function, {}).
run_checks ==
    /\ pc = "checks"
    /\ LET diag == StructuralChecks(wasm)
       IN IF diag # ""
            THEN /\ Return("false", diag)
                 /\ log' = log
            ELSE /\ pc' = "running"
                 /\ log' = Append(log, "execute")
                 /\ UNCHANGED <<err, result>>
    /\ UNCHANGED <<wasm, uvwasi_err, wasi_impl, exit_code, memory, trapped, hostcalls,
                   last_call>>

\* Mutant: result.trapped is not looked at.
RunResult_trap_ignored(t) == <<"true", "">>

\* After execute() returned: result.trapped decides.
RunResult(t) == IF t THEN <<"false", DiagTrap>> ELSE <<"true", "">>

run_result ==
    /\ pc = "returned"
    /\ Return(RunResult(trapped)[1], RunResult(trapped)[2])
    /\ UNCHANGED <<wasm, uvwasi_err, wasi_impl, log, exit_code, memory, trapped, hostcalls,
                   last_call>>

\* ------------------------------------------- the syscall-emulation (WASI)

ESUCCESS == 0
EBADF == 8
ENOSYS == 52

SizeofU32 == 4
SizeofIovec == 8
SizeofPrestat == 8

\* What the host side answers a call with: the status of the host operation,
\* and the data it has.
HostStatuses == {ESUCCESS, EBADF}
HostAnswers ==
    [status : HostStatuses, input_byte : {120}, name_len : {3}, environ_count : {1},
     environ_size : {6}]
NoAnswer ==
    [status |-> ESUCCESS, input_byte |-> 120, name_len |-> 3, environ_count |-> 1,
     environ_size |-> 6]

MemorySize(mem) == Cardinality(DOMAIN mem)

\* The accessor's bounds rule: a view of [off, off + len) exists exactly when
\* off + len does not exceed the memory's current size.
InBounds(mem, off, len) == off <= MemorySize(mem) /\ len <= MemorySize(mem) - off

ReadU32(mem, off) ==
    mem[off] + 256 * mem[off + 1] + 65536 * mem[off + 2] + 16777216 * mem[off + 3]

U32Bytes(v) == <<v % 256, (v \div 256) % 256, (v \div 65536) % 256, (v \div 16777216) % 256>>

WriteBytes(mem, off, bytes) ==
    [i \in DOMAIN mem |->
        IF i >= off /\ i < off + Len(bytes) THEN bytes[i - off + 1] ELSE mem[i]]

WriteU32(mem, off, v) == WriteBytes(mem, off, U32Bytes(v))

\* read-iovec-array: count pairs (buf, len), not validated until used.
ReadIovecArray(mem, off, cnt) ==
    [k \in 1..cnt |->
        [buf |-> ReadU32(mem, off + SizeofIovec * (k - 1)),
         len |-> ReadU32(mem, off + SizeofIovec * (k - 1) + SizeofU32)]]

RECURSIVE TotalLen(_)
TotalLen(iovs) == IF iovs = <<>> THEN 0 ELSE iovs[1].len + TotalLen(Tail(iovs))

IovecRanges(iovs) == {<<iovs[k].buf, iovs[k].len>> : k \in DOMAIN iovs}

\* What a call of the collaborator comes to: the status it returned and the
\* memory it leaves, or (fatal) no return at all; and the ranges of memory it
\* touched.
Done(mem, status, accesses) ==
    [ret |-> status, memory |-> mem, accesses |-> accesses, fatal |-> FALSE]

\* The accessor refused a range: a fatal guest-contract violation, the call
\* does not return.
Fatal(mem, accesses) == [ret |-> 0, memory |-> mem, accesses |-> accesses, fatal |-> TRUE]

\* fd_write: resolves the iovec array, then each buffer where it is used,
\* performs the write, and only then stores the byte count through
\* nwritten_ptr; every range is validated where it is used.
WASI_fd_write(mem, fd, iov_ptr, iov_cnt, nwritten_ptr, host) ==
    LET array == {<<iov_ptr, SizeofIovec * iov_cnt>>}
    IN IF ~InBounds(mem, iov_ptr, SizeofIovec * iov_cnt)
         THEN Fatal(mem, {})
         ELSE LET iovs == ReadIovecArray(mem, iov_ptr, iov_cnt)
              IN IF \E k \in DOMAIN iovs : ~InBounds(mem, iovs[k].buf, iovs[k].len)
                   THEN Fatal(mem, array)
                 ELSE IF host.status # ESUCCESS
                   THEN Done(mem, host.status, array)
                 ELSE IF ~InBounds(mem, nwritten_ptr, SizeofU32)
                   THEN Fatal(mem, array \cup IovecRanges(iovs))
                 ELSE Done(WriteU32(mem, nwritten_ptr, TotalLen(iovs)), ESUCCESS,
                           array \cup IovecRanges(iovs) \cup {<<nwritten_ptr, SizeofU32>>})

\* The bytes the host has for a read fill every buffer.
FillBuffers(mem, iovs, byte) ==
    [i \in DOMAIN mem |->
        IF \E k \in DOMAIN iovs : i >= iovs[k].buf /\ i < iovs[k].buf + iovs[k].len
          THEN byte ELSE mem[i]]

\* fd_read: resolves the iovec array, then each buffer where it is used,
\* scatters the bytes read into the buffers, and only then stores the byte
\* count through nread_ptr.
WASI_fd_read(mem, fd, iov_ptr, iov_cnt, nread_ptr, host) ==
    LET array == {<<iov_ptr, SizeofIovec * iov_cnt>>}
    IN IF ~InBounds(mem, iov_ptr, SizeofIovec * iov_cnt)
         THEN Fatal(mem, {})
         ELSE LET iovs == ReadIovecArray(mem, iov_ptr, iov_cnt)
                  filled == FillBuffers(mem, iovs, host.input_byte)
              IN IF \E k \in DOMAIN iovs : ~InBounds(mem, iovs[k].buf, iovs[k].len)
                   THEN Fatal(mem, array)
                 ELSE IF host.status # ESUCCESS
                   THEN Done(mem, host.status, array)
                 ELSE IF ~InBounds(mem, nread_ptr, SizeofU32)
                   THEN Fatal(filled, array \cup IovecRanges(iovs))
                 ELSE Done(WriteU32(filled, nread_ptr, TotalLen(iovs)), ESUCCESS,
                           array \cup IovecRanges(iovs) \cup {<<nread_ptr, SizeofU32>>})

\* fd_prestat_get: asks the host, then stores a prestat {type = directory (0),
\* name length} through prestat_ptr.
WASI_fd_prestat_get(mem, fd, prestat_ptr, host) ==
    IF host.status # ESUCCESS
      THEN Done(mem, host.status, {})
    ELSE IF ~InBounds(mem, prestat_ptr, SizeofPrestat)
      THEN Fatal(mem, {})
    ELSE Done(WriteBytes(mem, prestat_ptr, U32Bytes(0) \o U32Bytes(host.name_len)), ESUCCESS,
              {<<prestat_ptr, SizeofPrestat>>})

\* environ_sizes_get: asks the host, then stores the variable count through
\* environc and the buffer size through environ_buf_size, in that order.
WASI_environ_sizes_get(mem, environc, environ_buf_size, host) ==
    IF host.status # ESUCCESS
      THEN Done(mem, host.status, {})
    ELSE IF ~InBounds(mem, environc, SizeofU32)
      THEN Fatal(mem, {})
    ELSE LET counted == WriteU32(mem, environc, host.environ_count)
         IN IF ~InBounds(mem, environ_buf_size, SizeofU32)
              THEN Fatal(counted, {<<environc, SizeofU32>>})
              ELSE Done(WriteU32(counted, environ_buf_size, host.environ_size), ESUCCESS,
                        {<<environc, SizeofU32>>, <<environ_buf_size, SizeofU32>>})

\* return_enosys: the fixed "function not supported" status.
WASI_return_enosys == ENOSYS

\* proc_exit: terminates the process with the code; does not return.
WASI_proc_exit(code) == [returns |-> FALSE, exit_code |-> code]

\* ---------------------------------------------------- the host functions

\* What a handler's call amounts to: the ExecutionResult handed to the
\* interpreter, the memory it leaves, the ranges of memory touched, the
\* collaborator's status; or the collaborator did not return to the handler:
\* it terminated the process (proc_exit), or it aborted on a fatal error.
Returned(res, mem, wasi_ret, accesses) ==
    [terminated |-> FALSE, aborted |-> FALSE, exit_code |-> 0, result |-> res,
     memory |-> mem, wasi_ret |-> wasi_ret, accesses |-> accesses]

Terminated(code, mem) ==
    [terminated |-> TRUE, aborted |-> FALSE, exit_code |-> code, result |-> Void,
     memory |-> mem, wasi_ret |-> 0, accesses |-> {}]

Aborted(mem, accesses) ==
    [terminated |-> FALSE, aborted |-> TRUE, exit_code |-> 0, result |-> Void,
     memory |-> mem, wasi_ret |-> 0, accesses |-> accesses]

\* return Value{uint32_t{ret}}, once the collaborator has returned ret.
ReturnStatus(r) ==
    IF r.fatal THEN Aborted(r.memory, r.accesses)
    ELSE Returned(ValueResult(r.ret), r.memory, r.ret, r.accesses)

\* Mutant: the stub stores an empty result through its second pointer argument.
return_enosys_stores(mem, args, host) ==
    LET ptr == as_uint32(args[2])
    IN Returned(ValueResult(WASI_return_enosys),
                IF InBounds(mem, ptr, 1) THEN WriteBytes(mem, ptr, <<1>>) ELSE mem,
                WASI_return_enosys, {})

return_enosys(mem, args, host) ==
    Returned(ValueResult(WASI_return_enosys), mem, WASI_return_enosys, {})

\* Mutant: the exit code argument is dropped.
proc_exit_code_dropped(mem, args, host) ==
    LET t == WASI_proc_exit(0)
    IN IF t.returns THEN Returned(Trap, mem, 0, {}) ELSE Terminated(t.exit_code, mem)

proc_exit(mem, args, host) ==
    LET t == WASI_proc_exit(as_uint32(args[1]))
    IN IF t.returns THEN Returned(Trap, mem, 0, {}) ELSE Terminated(t.exit_code, mem)

\* Mutant: a failing status is turned into a trap.
fd_write_traps_on_error(mem, args, host) ==
    LET fd == as_uint32(args[1])
        iov_ptr == as_uint32(args[2])
        iov_cnt == as_uint32(args[3])
        nwritten_ptr == as_uint32(args[4])
        r == WASI_fd_write(mem, fd, iov_ptr, iov_cnt, nwritten_ptr, host)
    IN IF r.fatal THEN Aborted(r.memory, r.accesses)
       ELSE Returned(IF r.ret # ESUCCESS THEN Trap ELSE ValueResult(r.ret), r.memory, r.ret,
                     r.accesses)

fd_write(mem, args, host) ==
    LET fd == as_uint32(args[1])
        iov_ptr == as_uint32(args[2])
        iov_cnt == as_uint32(args[3])
        nwritten_ptr == as_uint32(args[4])
        r == WASI_fd_write(mem, fd, iov_ptr, iov_cnt, nwritten_ptr, host)
    IN ReturnStatus(r)

fd_read(mem, args, host) ==
    LET fd == as_uint32(args[1])
        iov_ptr == as_uint32(args[2])
        iov_cnt == as_uint32(args[3])
        nread_ptr == as_uint32(args[4])
        r == WASI_fd_read(mem, fd, iov_ptr, iov_cnt, nread_ptr, host)
    IN ReturnStatus(r)

fd_prestat_get(mem, args, host) ==
    LET fd == as_uint32(args[1])
        prestat_ptr == as_uint32(args[2])
        r == WASI_fd_prestat_get(mem, fd, prestat_ptr, host)
    IN ReturnStatus(r)

environ_sizes_get(mem, args, host) ==
    LET environc == as_uint32(args[1])
        environ_buf_size == as_uint32(args[2])
        r == WASI_environ_sizes_get(mem, environc, environ_buf_size, host)
    IN ReturnStatus(r)

\* The handlers that hand *instance.memory to the collaborator.
UsesMemory == {"fd_write", "fd_read", "fd_prestat_get", "environ_sizes_get"}

\* The function pointer stored in a table entry, called.
CallHandler(h, mem, args, host) ==
    CASE h = "proc_exit" -> proc_exit(mem, args, host)
      [] h = "fd_read" -> fd_read(mem, args, host)
      [] h = "fd_write" -> fd_write(mem, args, host)
      [] h = "fd_prestat_get" -> fd_prestat_get(mem, args, host)
      [] h = "environ_sizes_get" -> environ_sizes_get(mem, args, host)
      [] h = "return_enosys" -> return_enosys(mem, args, host)

\* --------------------------------------------- execute(): the guest runs

U32Samples == {0, 1, 255, 256, 2147483647}
Fds == {1}
Ptrs == {0, MemSize - SizeofU32, MemSize - SizeofU32 + 1, 2147483000}
Counts == {0, 1, 2}

Args1(A) == {<<I32Value(a)>> : a \in A}
Args2(A, B) == {<<I32Value(a), I32Value(b)>> : a \in A, b \in B}
Args3(A, B, C) == {<<I32Value(a), I32Value(b), I32Value(c)>> : a \in A, b \in B, c \in C}
Args4(A, B, C, D) ==
    {<<I32Value(a), I32Value(b), I32Value(c), I32Value(d)>> :
        a \in A, b \in B, c \in C, d \in D}

\* Where guest code runs: the start function inside instantiate(), and
\* "_start" inside execute().
GuestRunning == {"start_function", "running"}

\* The guest calls its import `name`: the interpreter calls the handler bound
\* to it. A handler's Trap traps the guest: execute() returns the trap to
\* run(), instantiate() throws. A terminated or aborted process runs no more.
\* A handler of UsesMemory dereferences instance.memory, which is null for an
\* instance without memory: undefined behaviour, a crash or an access
\* outside any guest memory after which the call returns the host's status.
HostCall(name, args, host) ==
    /\ pc \in GuestRunning
    /\ hostcalls < MaxCalls
    /\ \E imp \in wasm.imports :
         /\ imp.name = name
         /\ LET h == BoundEntry(imp).handler
                o == CallHandler(h, memory, args, host)
            IN IF h \in UsesMemory /\ memory = NullMemory
                 THEN \E ub \in {"crash", "stray"} :
                        /\ pc' = IF ub = "crash" THEN "crashed" ELSE pc
                        /\ last_call' = [name |-> name, args |-> args,
                                         wasi_ret |-> host.status,
                                         result |-> ValueResult(host.status),
                                         accesses |-> IF ub = "crash" THEN {}
                                                      ELSE {<<0, SizeofU32>>},
                                         terminated |-> FALSE,
                                         aborted |-> (ub = "crash")]
                        /\ UNCHANGED <<memory, result, err, exit_code, trapped>>
                 ELSE /\ last_call' = [name |-> name, args |-> args, wasi_ret |-> o.wasi_ret,
                                       result |-> o.result, accesses |-> o.accesses,
                                       terminated |-> o.terminated, aborted |-> o.aborted]
                      /\ memory' = o.memory
                      /\ IF o.terminated
                           THEN /\ pc' = "exited"
                                /\ result' = "exit"
                                /\ exit_code' = o.exit_code
                                /\ UNCHANGED <<err, trapped>>
                         ELSE IF o.aborted
                           THEN /\ pc' = "aborted"
                                /\ UNCHANGED <<result, err, exit_code, trapped>>
                         ELSE IF o.result.trapped /\ pc = "start_function"
                           THEN /\ Propagate
                                /\ trapped' = TRUE
                                /\ exit_code' = exit_code
                         ELSE /\ pc' = IF o.result.trapped THEN "returned" ELSE pc
                              /\ trapped' = o.result.trapped
                              /\ UNCHANGED <<result, err, exit_code>>
    /\ hostcalls' = hostcalls + 1
    /\ UNCHANGED <<wasm, uvwasi_err, wasi_impl, log>>

guest_proc_exit == \E a \in Args1(U32Samples) : HostCall("proc_exit", a, NoAnswer)

guest_fd_read ==
    \E a \in Args4(Fds, Ptrs, Counts, Ptrs), host \in HostAnswers : HostCall("fd_read", a, host)

guest_fd_write ==
    \E a \in Args4(Fds, Ptrs, Counts, Ptrs), host \in HostAnswers : HostCall("fd_write", a, host)

guest_fd_prestat_get ==
    \E a \in Args2(Fds, Ptrs), host \in HostAnswers : HostCall("fd_prestat_get", a, host)

guest_fd_prestat_dir_name ==
    \E a \in Args3(Fds, Ptrs, Counts) : HostCall("fd_prestat_dir_name", a, NoAnswer)

guest_environ_sizes_get ==
    \E a \in Args2(Ptrs, Ptrs), host \in HostAnswers : HostCall("environ_sizes_get", a, host)

guest_environ_get == \E a \in Args2(Ptrs, Ptrs) : HostCall("environ_get", a, NoAnswer)

\* The interpreter signals a trap of the guest (unreachable, a memory fault,
\* ...): execute() returns it to run(); instantiate() throws when its start
\* function trapped.
guest_trap ==
    /\ pc \in GuestRunning
    /\ trapped' = TRUE
    /\ IF pc = "start_function"
         THEN Propagate
         ELSE /\ pc' = "returned"
              /\ UNCHANGED <<err, result>>
    /\ UNCHANGED <<wasm, uvwasi_err, wasi_impl, log, exit_code, memory, hostcalls, last_call>>

\* The guest function returns normally: _start, of the type ()->(), leaves no
\* value to execute(); after the start function instantiate() returns the
\* instance.
guest_return ==
    /\ pc \in GuestRunning
    /\ pc' = IF pc = "start_function" THEN "checks" ELSE "returned"
    /\ trapped' = FALSE
    /\ UNCHANGED <<wasm, uvwasi_err, wasi_impl, log, err, result, exit_code, memory,
                   hostcalls, last_call>>

\* ------------------------------------------------------- the specification

Next ==
    \/ run_init
    \/ run_parse
    \/ run_resolve
    \/ run_instantiate
    \/ run_checks
    \/ run_result
    \/ guest_proc_exit
    \/ guest_fd_read
    \/ guest_fd_write
    \/ guest_fd_prestat_get
    \/ guest_fd_prestat_dir_name
    \/ guest_environ_sizes_get
    \/ guest_environ_get
    \/ guest_trap
    \/ guest_return

Spec == Init /\ [][Next]_vars

\* ------------------------------------------------------------ properties

InLog(call) == \E i \in DOMAIN log : log[i] = call
Executed == InLog("execute")
Diagnosed(diag) == \E i \in DOMAIN err : err[i] = diag

\* The run ended inside instantiate(), in the start function: it trapped, or
\* the process was terminated, aborted or crashed there.
StartFunctionFailed == ~Executed /\ (trapped \/ pc \in {"exited", "aborted", "crashed"})

\* run() has an instance in hand: init, parse, resolve and instantiate
\* succeeded, and instantiate() has returned.
Instantiated ==
    /\ InLog("instantiate")
    /\ pc \notin {"instantiate", "start_function"}
    /\ wasm.well_formed /\ wasm.within_limits /\ resolve_imported_functions(wasm.imports)
    /\ ~StartFunctionFailed

\* A step in which a host-call handler ran.
HandlerRan == hostcalls' = hostcalls + 1

\* C1: a guest call proc_exit(c) ends the run with the process-exit outcome
\* carrying exactly c, for every c: the process is terminated with code c,
\* nothing runs afterwards (neither the guest nor the rest of run()), and no
\* trap is recorded or reported.
C1_ProcExitTerminates ==
    /\ [](last_call.name = "proc_exit" =>
            /\ pc = "exited"
            /\ result = "exit"
            /\ exit_code = as_uint32(last_call.args[1])
            /\ ~trapped
            /\ ~Diagnosed(DiagTrap))
    /\ [][pc = "exited" => UNCHANGED vars]_vars

C1_Witness ==
    /\ pc = "exited"
    /\ hostcalls = 2
    /\ last_call.name = "proc_exit"
    /\ exit_code = 0

\* C2 as stated: a module that exports no "_start" is rejected before any
\* host call happens: at no point of its run is a host-call handler invoked
\* or execute() called, and once run() has the instance it returns false with
\* the "_start not found" diagnostic.
C2_NoStartRejectedBeforeAnyHostCall ==
    ~wasm.start.exported =>
        /\ hostcalls = 0
        /\ ~Executed
        /\ pc = "done" => result \in {"false", "error"}
        /\ (Instantiated /\ pc = "done") => (result = "false" /\ err = <<DiagNoStart>>)

C4_EnosysStubs ==
    [][(HandlerRan /\ last_call'.name \in {"fd_prestat_dir_name", "environ_get"}) =>
            /\ last_call'.result = ValueResult(ENOSYS)
            /\ memory' = memory
            /\ last_call'.accesses = {}
            /\ pc' = pc
            /\ pc' \in GuestRunning
            /\ ~trapped']_vars

C4_Witness ==
    /\ last_call.name = "environ_get"
    /\ as_uint32(last_call.args[2]) = 0
    /\ last_call.result = ValueResult(ENOSYS)
    /\ memory = ImageHi
    /\ pc = "running"

\* C5: for fd_read, fd_write, fd_prestat_get and environ_sizes_get, whatever
\* status the collaborator returns to the handler, zero or not, the handler
\* returns exactly that status as one ordinary result value; the call neither
\* traps nor ends the run, and the guest goes on.
StatusCalls == {"fd_read", "fd_write", "fd_prestat_get", "environ_sizes_get"}

C5_StatusIsAnOrdinaryResult ==
    [][(HandlerRan /\ last_call'.name \in StatusCalls /\ ~last_call'.aborted) =>
            /\ last_call'.result = ValueResult(last_call'.wasi_ret)
            /\ ~last_call'.terminated
            /\ pc' = pc
            /\ pc' \in GuestRunning
            /\ ~trapped'
            /\ result' = "none"
            /\ err' = err]_vars

C5_Witness ==
    /\ hostcalls = 2
    /\ last_call.name = "fd_write"
    /\ last_call.wasi_ret = EBADF
    /\ last_call.result = ValueResult(EBADF)
    /\ pc = "running"

\* The ranges of guest memory a call's pointer arguments name directly.
DirectRanges(call) ==
    CASE call.name \in {"fd_read", "fd_write"} ->
           {<<as_uint32(call.args[2]), SizeofIovec * as_uint32(call.args[3])>>,
            <<as_uint32(call.args[4]), SizeofU32>>}
      [] call.name = "fd_prestat_get" -> {<<as_uint32(call.args[2]), SizeofPrestat>>}
      [] call.name = "environ_sizes_get" ->
           {<<as_uint32(call.args[1]), SizeofU32>>, <<as_uint32(call.args[2]), SizeofU32>>}
      [] OTHER -> {}

\* C6 as stated: every range of memory a host call touches lies inside the
\* instance's memory, whose size the call leaves as it is; and a call one of
\* whose pointer arguments names a range that ends beyond the memory's size
\* fails: it does not return the success status.
C6_AccessesStayInBounds ==
    [][HandlerRan =>
            /\ \A a \in last_call'.accesses : InBounds(memory, a[1], a[2])
            /\ DOMAIN memory' = DOMAIN memory
            /\ (\E r \in DirectRanges(last_call') : r[1] + r[2] > MemorySize(memory)) =>
                  (last_call'.aborted \/ last_call'.wasi_ret # ESUCCESS)]_vars

\* The collaborator call that failed: parse, resolve or instantiate was
\* called and could not deliver (instantiate: the limit on memory, or a
\* start function that trapped).
LoadFailed ==
    \/ InLog("parse") /\ ~wasm.well_formed
    \/ InLog("resolve_imported_functions") /\ ~resolve_imported_functions(wasm.imports)
    \/ InLog("instantiate") /\ ~wasm.within_limits
    \/ InLog("instantiate") /\ ~Executed /\ trapped

\* C7 as stated: when parsing, import resolution or instantiation fails,
\* run() writes a diagnostic to the error stream and returns false, having
\* executed no guest code.
C7_LoadFailureReturnsFalse ==
    (LoadFailed /\ pc = "done") =>
        /\ result = "false"
        /\ err # <<>>
        /\ ~Executed
        /\ hostcalls = 0

\* C7, amended: when parsing, import resolution or instantiation fails,
\* run() never calls execute(), but it neither writes a diagnostic nor
\* returns false: the collaborator's error leaves run() unhandled, to its
\* caller, and run() calls nothing more after the call that failed.
C7_LoadFailurePropagates ==
    LoadFailed =>
        /\ pc = "done"
        /\ result = "error"
        /\ err = <<>>
        /\ ~Executed
        /\ log[Len(log)] \in {"parse", "resolve_imported_functions", "instantiate"}

C7_Witness ==
    /\ pc = "done"
    /\ result = "error"
    /\ wasm.imports = UnknownImport
    /\ wasm.start.exported
    /\ log = <<"create_uvwasi", "init", "parse", "resolve_imported_functions">>

\* C8 as stated: every instantiated module that exports no memory named
\* "memory" is rejected with the "no memory exported" diagnostic and the
\* result false, and execute() is never called.
C8_NoMemoryDiagnosticAlways ==
    (Instantiated /\ wasm.memory # "exported") =>
        /\ ~Executed
        /\ pc = "done" => (result = "false" /\ err = <<DiagNoMemory>>)

\* C8, amended: every instantiated module that exports no memory named
\* "memory" is rejected with the result false, and execute() is never
\* called, also when "_start" exists with the type ()->(); the diagnostic is "no memory exported" when "_start" exists with
\* the type ()->(), and otherwise the diagnostic of the "_start" guard that
\* failed first.
C8_NoMemoryRejected ==
    (Instantiated /\ wasm.memory # "exported") =>
        /\ ~Executed
        /\ pc \in {"checks", "done"}
        /\ pc = "done" =>
             /\ result = "false"
             /\ err = << IF ~wasm.start.exported THEN DiagNoStart
                         ELSE IF wasm.start.type # EmptyFuncType THEN DiagBadSignature
                         ELSE DiagNoMemory >>

C8_Witness ==
    /\ pc = "done"
    /\ Instantiated
    /\ wasm.memory = "internal"
    /\ wasm.start = [exported |-> TRUE, type |-> EmptyFuncType]
    /\ result = "false"
    /\ err = <<DiagNoMemory>>

\* C9: once execute() was called the run ends in one outcome and stays in it:
\* after a trap run() writes the trap diagnostic and returns false, after a
\* normal return it returns true and writes nothing; the guest is not resumed
\* nor executed again; and run() returns true only when the three structural
\* guards passed and the execution did not trap.
C9_OneTerminalOutcome ==
    /\ []((pc = "done" /\ Executed) =>
            IF trapped THEN result = "false" /\ err = <<DiagTrap>>
                       ELSE result = "true" /\ err = <<>>)
    /\ [](result = "true" =>
            /\ wasm.start = [exported |-> TRUE, type |-> EmptyFuncType]
            /\ wasm.memory = "exported"
            /\ Executed
            /\ ~trapped)
    /\ [](Cardinality({i \in DOMAIN log : log[i] = "execute"}) <= 1)
    /\ [][(pc \in {"returned", "done", "exited", "aborted", "crashed"}) =>
            (pc' \in {"done", "exited"} /\ hostcalls' = hostcalls /\ log' = log
             /\ trapped' = trapped /\ memory' = memory)]_vars
    /\ [][(pc \in {"done", "exited", "aborted", "crashed"}) => UNCHANGED vars]_vars

C9_WitnessTrapped ==
    /\ pc = "done"
    /\ Executed
    /\ trapped
    /\ hostcalls = 1
    /\ result = "false"
    /\ err = <<DiagTrap>>

\* C10: run() creates the collaborator and calls init() before parse,
\* instantiate and execute; when init() returns a status other than zero,
\* run() writes a diagnostic and returns false and calls nothing more; so
\* whenever a host-call handler has run, wasi_impl was non-null and
\* initialised.
C10_InitFirst ==
    /\ log # <<>> => (Len(log) >= 2 /\ log[1] = "create_uvwasi" /\ log[2] = "init")
    /\ \A i \in DOMAIN log : i > 2 => log[i] \notin {"create_uvwasi", "init"}
    /\ (uvwasi_err # 0 /\ pc # "init") =>
          /\ pc = "done"
          /\ result = "false"
          /\ err = <<DiagInit>>
          /\ log = <<"create_uvwasi", "init">>
    /\ (hostcalls > 0 \/ pc \notin {"init", "done"}) =>
          (wasi_impl = "initialised" /\ uvwasi_err = 0)

C10_WitnessInitFailed ==
    /\ uvwasi_err # 0
    /\ pc = "done"
    /\ err = <<DiagInit>>
    /\ wasm.well_formed
    /\ wasm.start = [exported |-> TRUE, type |-> EmptyFuncType]
    /\ wasm.memory = "exported"
    /\ wasm.imports = AllWasiImports

====
